---------------------------- MODULE Spec2Model ----------------------------
(***************************************************************************)
(* Model of src/app.py: the certificate points prediction service.         *)
(*                                                                         *)
(* Strings are sequences of one-character strings, so that str.lower,      *)
(* str.strip, ' '.join and the substring test `keyword in text` are        *)
(* computed the way the Python code computes them.                         *)
(*                                                                         *)
(* Four specifications:                                                    *)
(*   SpecPredict  calls predict_points on bounded texts                    *)
(*   SpecExtract  calls extract_text_from_images on bounded OCR outputs    *)
(*   SpecSolo     the handler upload_certificate serving one request       *)
(*   Spec         the handler serving two requests concurrently over the   *)
(*                one shared upload folder                                 *)
(***************************************************************************)
EXTENDS Integers, Sequences, FiniteSets, TLC

VARIABLES
    callArg,      \* argument of the pure function under call (SpecPredict, SpecExtract)
    callRet,      \* <<its return value>>, <<>> before the call
    active,       \* the requests being served
    pc,           \* pc[s]: position of request s in upload_certificate
    inp,          \* inp[s]: what request s submitted, filled in as the handler reads it
    folder,       \* the upload folder: file name -> file content
    images,       \* images[s]: the list `images` of the handler
    idx,          \* idx[s]: how many images the loop of extract_text_from_images has done
    texts,        \* texts[s]: the list extracted_texts
    pending,      \* pending[s]: the return value of the try block, kept while finally runs
    todel,        \* todel[s]: the os.listdir snapshot the cleanup loop iterates over
    response,     \* response[s]: what the handler returned to the client
    trail,        \* trail[s]: the steps request s has taken, in order
    HAS_MAGIC     \* whether `import magic` succeeded when the module was loaded

vars == <<callArg, callRet, active, pc, inp, folder, images, idx,
          texts, pending, todel, response, trail, HAS_MAGIC>>

(***************************************************************************)
(* Bounds of the model                                                     *)
(***************************************************************************)
MaxWords == 3        \* words per text handed to predict_points
MaxImages == 3       \* OCR outputs per call of extract_text_from_images
MaxPages == 4        \* pages of a submitted PDF (one request)
MaxConcPages == 1    \* pages of a submitted PDF (two concurrent requests)

(***************************************************************************)
(* Characters and strings                                                  *)
(***************************************************************************)
UpperCase == <<"A", "B", "C", "D", "E", "F", "G", "H", "I", "J", "K", "L", "M",
               "N", "O", "P", "Q", "R", "S", "T", "U", "V", "W", "X", "Y", "Z">>
LowerCase == <<"a", "b", "c", "d", "e", "f", "g", "h", "i", "j", "k", "l", "m",
               "n", "o", "p", "q", "r", "s", "t", "u", "v", "w", "x", "y", "z">>
Whitespace == {" ", "\n", "\t", "\r", "\f"}

\* the words texts are built from, spelled out as character sequences
Chars(w) ==
  CASE w = "nptel" -> <<"n", "p", "t", "e", "l">>
    [] w = "NPTEL" -> <<"N", "P", "T", "E", "L">>
    [] w = "Nptel" -> <<"N", "p", "t", "e", "l">>
    [] w = "np" -> <<"n", "p">>
    [] w = "tel" -> <<"t", "e", "l">>
    [] w = " " -> <<" ">>
    [] w = "hackathon" -> <<"h", "a", "c", "k", "a", "t", "h", "o", "n">>
    [] w = "Winner" -> <<"W", "i", "n", "n", "e", "r">>
    [] w = "intern" -> <<"i", "n", "t", "e", "r", "n">>
    [] w = "course" -> <<"c", "o", "u", "r", "s", "e">>
    [] w = "National Programme" -> <<"N", "a", "t", "i", "o", "n", "a", "l", " ", "P", "r", "o", "g", "r", "a", "m", "m", "e">>
    [] w = "xyz" -> <<"x", "y", "z">>
    [] w = "ocr:nptel" -> <<"N", "P", "T", "E", "L", " ", "O", "n", "l", "i", "n", "e", " ", "c", "o", "u", "r", "s", "e", "\n">>
    [] w = "ocr:cert" -> <<"C", "e", "r", "t", "i", "f", "i", "c", "a", "t", "e", " ", "o", "f", " ", "c", "o", "m", "p", "l", "e", "t", "i", "o", "n", " ", "a", "w", "a", "r", "d", "e", "d", " ", "f", "o", "r", " ", "t", "h", "e", " ", "w", "o", "r", "k", "s", "h", "o", "p", " ", "o", "n", " ", "r", "o", "b", "o", "t", "s", "\n">>
    [] w = "ocr:noise" -> <<"l", "o", "r", "e", "m", " ", "i", "p", "s", "u", "m", "\n">>
    [] w = "ocr:blank" -> <<"\n", "\f">>
    [] w = "abc" -> <<"a", "b", "c">>
    [] w = "abc-nl" -> <<"a", "b", "c", "\n">>
    [] w = "sp-abc" -> <<" ", "a", "b", "c">>
    [] w = "def" -> <<"d", "e", "f">>
    [] w = "a b" -> <<"a", " ", "b">>
    [] w = "empty" -> <<>>

Vocabulary == {"nptel", "NPTEL", "Nptel", "np", "tel", " ", "hackathon", "Winner",
               "intern", "course", "National Programme", "xyz"}

RECURSIVE Concat(_)
Concat(ws) == IF ws = <<>> THEN <<>> ELSE Chars(Head(ws)) \o Concat(Tail(ws))

\* all sequences over S of length at most n
SeqsUpTo(S, n) == UNION {[1..k -> S] : k \in 0..n}

\* str.lower() on ASCII text
LowerChar(c) ==
    IF \E i \in 1..Len(UpperCase) : UpperCase[i] = c
    THEN LowerCase[CHOOSE i \in 1..Len(UpperCase) : UpperCase[i] = c]
    ELSE c
Lower(s) == [i \in 1..Len(s) |-> LowerChar(s[i])]

\* `sub in s` on Python strings
Contains(s, sub) ==
    \E i \in 1..(Len(s) - Len(sub) + 1) : SubSeq(s, i, i + Len(sub) - 1) = sub

(***************************************************************************)
(* predict_points                                                          *)
(***************************************************************************)
certificate_rules ==
  <<
    [type |-> "NPTEL", points |-> 50, keywords |-> <<
        <<"n", "p", "t", "e", "l">>,
        <<"n", "a", "t", "i", "o", "n", "a", "l", " ", "p", "r", "o", "g", "r", "a", "m", "m", "e">>,
        <<"o", "n", "l", "i", "n", "e", " ", "c", "e", "r", "t", "i", "f", "i", "c", "a", "t", "i", "o", "n">>
      >>],
    [type |-> "Hackathon/Competition", points |-> 40, keywords |-> <<
        <<"h", "a", "c", "k", "a", "t", "h", "o", "n">>,
        <<"c", "o", "m", "p", "e", "t", "i", "t", "i", "o", "n">>,
        <<"c", "h", "a", "l", "l", "e", "n", "g", "e">>,
        <<"w", "i", "n", "n", "e", "r">>
      >>],
    [type |-> "Internship", points |-> 30, keywords |-> <<
        <<"i", "n", "t", "e", "r", "n", "s", "h", "i", "p">>,
        <<"i", "n", "t", "e", "r", "n">>,
        <<"t", "r", "a", "i", "n", "i", "n", "g">>
      >>],
    [type |-> "Professional Development", points |-> 20, keywords |-> <<
        <<"p", "r", "o", "f", "e", "s", "s", "i", "o", "n", "a", "l">>,
        <<"d", "e", "v", "e", "l", "o", "p", "m", "e", "n", "t">>,
        <<"w", "o", "r", "k", "s", "h", "o", "p">>,
        <<"s", "e", "m", "i", "n", "a", "r">>,
        <<"c", "o", "u", "r", "s", "e">>
      >>]
  >>

DefaultResult == [type |-> "Other Certificate", points |-> 10]

\* any(keyword in text for keyword in rule['keywords'])
AnyKeyword(rule, text) ==
    \E k \in 1..Len(rule.keywords) : Contains(text, rule.keywords[k])

\* a variant of the loop that walks the rules from the last to the first
RECURSIVE FirstRuleReversed(_, _)
FirstRuleReversed(text, i) ==
    IF i > Len(certificate_rules) THEN DefaultResult
    ELSE LET rule == certificate_rules[Len(certificate_rules) + 1 - i] IN
         IF AnyKeyword(rule, text)
         THEN [type |-> rule.type, points |-> rule.points]
         ELSE FirstRuleReversed(text, i + 1)

\* the loop `for rule in certificate_rules`, from rule i on
RECURSIVE FirstRule(_, _)
FirstRule(text, i) ==
    IF i > Len(certificate_rules) THEN DefaultResult
    ELSE IF AnyKeyword(certificate_rules[i], text)
         THEN [type |-> certificate_rules[i].type, points |-> certificate_rules[i].points]
         ELSE FirstRule(text, i + 1)

\* a variant of predict_points that matches the text as it is, not lowercased
predict_points_case_sensitive(extracted_text) == FirstRule(extracted_text, 1)

predict_points(extracted_text) == FirstRule(Lower(extracted_text), 1)

(***************************************************************************)
(* SpecPredict: predict_points called on every text of at most MaxWords    *)
(* words of the vocabulary (words are concatenated without a separator, so *)
(* a keyword may also arise across a word boundary)                        *)
(***************************************************************************)
Idle ==
    /\ active = {}
    /\ pc = <<>>
    /\ inp = <<>>
    /\ folder = <<>>
    /\ images = <<>>
    /\ idx = <<>>
    /\ texts = <<>>
    /\ pending = <<>>
    /\ todel = <<>>
    /\ response = <<>>
    /\ trail = <<>>
    /\ HAS_MAGIC = TRUE

pipeVars == <<active, pc, inp, folder, images, idx, texts,
              pending, todel, response, trail, HAS_MAGIC>>

InitPredict ==
    /\ \E ws \in SeqsUpTo(Vocabulary, MaxWords) :
          callArg = [fn |-> "predict_points", text |-> Concat(ws)]
    /\ callRet = <<>>
    /\ Idle

CallPredict ==
    /\ callArg.fn = "predict_points"
    /\ callRet = <<>>
    /\ callRet' = <<predict_points(callArg.text)>>
    /\ UNCHANGED <<callArg, pipeVars>>

SpecPredict == InitPredict /\ [][CallPredict]_vars


(***************************************************************************)
(* extract_text_from_images                                                *)
(***************************************************************************)
\* str.strip(): leading and trailing whitespace removed
RECURSIVE LStrip(_)
LStrip(s) == IF s # <<>> /\ Head(s) \in Whitespace THEN LStrip(Tail(s)) ELSE s
RECURSIVE RStrip(_)
RStrip(s) ==
    IF s # <<>> /\ s[Len(s)] \in Whitespace THEN RStrip(SubSeq(s, 1, Len(s) - 1)) ELSE s
Strip(s) == RStrip(LStrip(s))

\* ' '.join(parts)
RECURSIVE JoinSpace(_)
JoinSpace(parts) ==
    IF parts = <<>> THEN <<>>
    ELSE IF Len(parts) = 1 THEN parts[1]
    ELSE parts[1] \o <<" ">> \o JoinSpace(Tail(parts))

\* the body of the loop for one image whose OCR output is `out`:
\* extracted_texts.append(text.strip())
AppendText(extracted_texts, out) == Append(extracted_texts, Strip(out))

\* extract_text_from_images on images whose preprocessing and OCR succeed,
\* outs[i] being what pytesseract returns for image i
RECURSIVE ExtractLoop(_, _)
ExtractLoop(extracted_texts, outs) ==
    IF outs = <<>> THEN extracted_texts
    ELSE ExtractLoop(AppendText(extracted_texts, Head(outs)), Tail(outs))

\* a sequence without the elements that occurred earlier in it
RECURSIVE RemoveLaterDuplicates(_)
RemoveLaterDuplicates(q) ==
    IF q = <<>> THEN <<>>
    ELSE LET front == SubSeq(q, 1, Len(q) - 1)
             last == q[Len(q)]
         IN  IF \E i \in 1..Len(front) : front[i] = last
             THEN RemoveLaterDuplicates(front)
             ELSE Append(RemoveLaterDuplicates(front), last)

extract_text_from_images(outs) == JoinSpace(ExtractLoop(<<>>, outs))

(***************************************************************************)
(* SpecExtract: extract_text_from_images called on every list of at most   *)
(* MaxImages OCR outputs                                                   *)
(***************************************************************************)
OcrOutputs == {"abc", "abc-nl", "sp-abc", "def", "a b", "empty", "ocr:blank"}

InitExtract ==
    /\ \E outs \in SeqsUpTo(OcrOutputs, MaxImages) :
          callArg = [fn |-> "extract_text_from_images",
                     outs |-> [i \in 1..Len(outs) |-> Chars(outs[i])]]
    /\ callRet = <<>>
    /\ Idle

CallExtract ==
    /\ callArg.fn = "extract_text_from_images"
    /\ callRet = <<>>
    /\ callRet' = <<extract_text_from_images(callArg.outs)>>
    /\ UNCHANGED <<callArg, pipeVars>>

SpecExtract == InitExtract /\ [][CallExtract]_vars


(***************************************************************************)
(* upload_certificate: the state of one request                            *)
(***************************************************************************)
Subs == {1, 2}

NoResponse == [status |-> 0, error |-> "", points |-> 0, type |-> ""]
\* jsonify({'error': ..., 'points': 0}), status
ErrorResponse(status, error) ==
    [status |-> status, error |-> error, points |-> 0, type |-> ""]
\* jsonify({'points': point_result['points'], 'certificateType': point_result['type']}), 200
PointsResponse(point_result) ==
    [status |-> 200, error |-> "", points |-> point_result.points,
     type |-> point_result.type]

NoInput ==
    [req |-> "unread", filename |-> "unread", b64 |-> "unread",
     doc |-> [kind |-> "unread", pages |-> <<>>], magic |-> "unread",
     save |-> "unread"]

\* what preprocessing and OCR make of one image: the text pytesseract returns,
\* or an exception raised by preprocess_image or by image_to_string
PageOutcomes ==
    IF Cardinality(active) = 1
    THEN {"ocr:nptel", "ocr:cert", "ocr:noise", "prefail", "ocrfail"}
    ELSE {"ocr:nptel", "ocrfail"}

\* the decoded payloads: what the bytes are, and for a PDF its pages (a PDF
\* that poppler cannot read has none), for an image the image itself
Docs(maxPages) ==
    {[kind |-> "pdf", pages |-> p] : p \in SeqsUpTo(PageOutcomes, maxPages)}
    \cup {[kind |-> k, pages |-> <<o>>] : k \in {"png", "jpeg"}, o \in PageOutcomes}
    \cup {[kind |-> k, pages |-> <<>>] : k \in {"gif", "text"}}

MaxDocPages == IF Cardinality(active) = 1 THEN MaxPages ELSE MaxConcPages

\* data.get('filename', 'certificate') as submitted
Filenames ==
    IF Cardinality(active) = 1 THEN {"certificate", "scan", "../scan"}
    ELSE {"certificate", "scan"}

\* werkzeug's secure_filename: path separators and leading dots are dropped
secure_filename(filename) == IF filename = "../scan" THEN "scan" ELSE filename

(***************************************************************************)
(* detect_mime_type                                                        *)
(***************************************************************************)
\* magic.from_buffer(file_data, mime=True)
MagicFromBuffer(doc) ==
    CASE doc.kind = "pdf" -> "application/pdf"
      [] doc.kind = "png" -> "image/png"
      [] doc.kind = "jpeg" -> "image/jpeg"
      [] doc.kind = "gif" -> "image/gif"
      [] OTHER -> "text/plain"

\* mimetypes.guess_type(file_data)[0]: file_data is a bytes object, on which
\* guess_type raises TypeError; the except clause logs it and nothing is guessed
GuessType(doc) == "None"

detect_mime_type(doc, magicRaises) ==
    IF HAS_MAGIC /\ ~magicRaises THEN MagicFromBuffer(doc)
    ELSE IF GuessType(doc) # "None" THEN GuessType(doc)
    ELSE "application/octet-stream"

\* a variant of the list of accepted types that lets GIF images through
AllowedMimesWithGif ==
    {"application/pdf", "image/jpeg", "image/png", "image/jpg", "image/gif"}

AllowedMimes == {"application/pdf", "image/jpeg", "image/png", "image/jpg"}

\* mime_type.split('/')[-1], 'jpeg' replaced by 'jpg'
FileExtension(mime) ==
    CASE mime = "application/pdf" -> "pdf"
      [] mime = "image/png" -> "png"
      [] mime = "image/jpeg" -> "jpg"
      [] mime = "image/jpg" -> "jpg"
      [] mime = "image/gif" -> "gif"
      [] mime = "text/plain" -> "plain"
      [] OTHER -> "octet-stream"

mime_type(s) == detect_mime_type(inp[s].doc, inp[s].magic = "raise")
file_extension(s) == FileExtension(mime_type(s))

(***************************************************************************)
(* The upload folder.  A file name is <<base, extension, page>>: page 0 is *)
(* "<base>.<extension>", page k > 0 is the k-th image pdf2image writes,    *)
(* "<base>0001-<k>.jpg".                                                   *)
(***************************************************************************)
temp_filepath(s) == <<secure_filename(inp[s].filename), file_extension(s), 0>>

PutFile(dir, name, content) ==
    [n \in DOMAIN dir \cup {name} |-> IF n = name THEN content ELSE dir[n]]
PutFiles(dir, new) ==
    [n \in DOMAIN dir \cup DOMAIN new |-> IF n \in DOMAIN new THEN new[n] ELSE dir[n]]
RemoveFile(dir, name) == [n \in DOMAIN dir \ {name} |-> dir[n]]

RECURSIVE SetToSeq(_)
SetToSeq(S) ==
    IF S = {} THEN <<>>
    ELSE LET x == CHOOSE y \in S : TRUE IN <<x>> \o SetToSeq(S \ {x})

\* a step of request s: the program counter moves and the step is recorded
Goto(s, step, next) ==
    /\ pc' = [pc EXCEPT ![s] = next]
    /\ trail' = [trail EXCEPT ![s] = Append(@, step)]

(***************************************************************************)
(* upload_certificate, lines 190-207: the request is JSON and carries a    *)
(* certificate                                                             *)
(***************************************************************************)
CheckRequest(s) ==
    /\ pc[s] = "received"
    /\ \E r \in {"ok", "notjson", "nocert"}, fn \in Filenames :
         /\ inp' = [inp EXCEPT ![s].req = r,
                               ![s].filename = IF r = "ok" THEN fn ELSE @]
         /\ response' = [response EXCEPT ![s] =
                IF r = "notjson" THEN ErrorResponse(400, "Invalid request format")
                ELSE IF r = "nocert" THEN ErrorResponse(400, "No file uploaded")
                ELSE @]
         /\ Goto(s, "CheckRequest", IF r = "ok" THEN "decode" ELSE "done")
    /\ UNCHANGED <<callArg, callRet, active, folder, images, idx, texts, pending,
                   todel, HAS_MAGIC>>

\* lines 214-220: base64.b64decode, an exception goes to the outer except
Decode(s) ==
    /\ pc[s] = "decode"
    /\ \E ok \in BOOLEAN, d \in Docs(MaxDocPages) :
         /\ inp' = [inp EXCEPT ![s].b64 = IF ok THEN "ok" ELSE "bad",
                               ![s].doc = IF ok THEN d ELSE @]
         /\ response' = [response EXCEPT ![s] =
                IF ok THEN @ ELSE ErrorResponse(400, "Invalid file format")]
         /\ Goto(s, "Decode", IF ok THEN "detect" ELSE "done")
    /\ UNCHANGED <<callArg, callRet, active, folder, images, idx, texts, pending,
                   todel, HAS_MAGIC>>

\* lines 222-236: detect the MIME type and validate the file type
DetectMime(s) ==
    /\ pc[s] = "detect"
    /\ \E raises \in BOOLEAN :
         /\ raises => HAS_MAGIC
         /\ inp' = [inp EXCEPT ![s].magic = IF raises THEN "raise" ELSE "ok"]
         /\ LET mime == detect_mime_type(inp[s].doc, raises) IN
            /\ response' = [response EXCEPT ![s] =
                   IF mime \notin AllowedMimes
                   THEN ErrorResponse(400, "Unsupported file type") ELSE @]
            /\ Goto(s, "DetectMime", IF mime \notin AllowedMimes THEN "done" ELSE "save")
    /\ UNCHANGED <<callArg, callRet, active, folder, images, idx, texts, pending,
                   todel, HAS_MAGIC>>

\* lines 243-250: open(temp_filepath, 'wb') and f.write(file_data).  open may
\* fail (nothing is created), and write may fail after open created the file;
\* both exceptions go to the outer except, which does not clean up
SaveTemp(s) ==
    /\ pc[s] = "save"
    /\ \E fault \in {"none", "open", "write"} :
         /\ inp' = [inp EXCEPT ![s].save = fault]
         /\ folder' =
              IF fault = "open" THEN folder
              ELSE IF fault = "write"
                   THEN PutFile(folder, temp_filepath(s),
                                [kind |-> "partial", pages |-> <<>>, by |-> s])
                   ELSE PutFile(folder, temp_filepath(s),
                                [kind |-> inp[s].doc.kind, pages |-> inp[s].doc.pages,
                                 by |-> s])
         /\ response' = [response EXCEPT ![s] =
                IF fault = "none" THEN @ ELSE ErrorResponse(400, "Invalid file format")]
         /\ Goto(s, "SaveTemp",
                 IF fault # "none" THEN "done"
                 ELSE IF file_extension(s) = "pdf" THEN "rasterize" ELSE "open_image")
    /\ UNCHANGED <<callArg, callRet, active, images, idx, texts, pending, todel,
                   HAS_MAGIC>>

(***************************************************************************)
(* convert_pdf_to_images                                                   *)
(***************************************************************************)
\* the pages pdf2image.convert_from_path converts: it is called without
\* first_page or last_page, so every page of the document
PagesConverted(content) == content.pages

\* the files of the output folder in the order of sorted(os.listdir(...))
SortByPage(found) ==
    [i \in 1..Cardinality(found) |->
        CHOOSE n \in found : Cardinality({m \in found : m[3] < n[3]}) = i - 1]

\* convert_from_path writes one jpg per page into output_folder, named after
\* the PDF, and returns every jpg of the folder whose name starts with that
\* name, opened with Image.open.  Any exception (the file is missing or is
\* no readable PDF, a jpg cannot be opened) is logged and [] is returned.
\* The value is the folder afterwards and the list returned.
convert_pdf_to_images(dir, pdf_path, s) ==
    IF \/ pdf_path \notin DOMAIN dir
       \/ dir[pdf_path].kind # "pdf"
       \/ PagesConverted(dir[pdf_path]) = <<>>
    THEN [dir |-> dir, images |-> <<>>]
    ELSE LET pages == PagesConverted(dir[pdf_path])
             base == pdf_path[1]
             written == PutFiles(dir,
                 [n \in {<<base, "jpg", k>> : k \in 1..Len(pages)} |->
                     [kind |-> "jpeg", pages |-> <<pages[n[3]]>>, by |-> s]])
             found == {n \in DOMAIN written : n[1] = base /\ n[2] = "jpg"}
             sorted == SortByPage(found)
         IN  [dir |-> written,
              images |->
                 IF \A n \in found : written[n].kind \in {"jpeg", "png"}
                 THEN [i \in 1..Len(sorted) |->
                         [out |-> written[sorted[i]].pages[1],
                          by |-> written[sorted[i]].by]]
                 ELSE <<>>]

\* a variant of the except clause that answers with the default points
ProcessingErrorWithPoints ==
    [status |-> 500, error |-> "Processing error", points |-> 10, type |-> ""]

\* the except clause of lines 279-284
ProcessingError == ErrorResponse(500, "Processing error")

\* lines 254-258: the PDF branch; no images raises ValueError
Rasterize(s) ==
    /\ pc[s] = "rasterize"
    /\ LET r == convert_pdf_to_images(folder, temp_filepath(s), s) IN
         /\ folder' = r.dir
         /\ images' = [images EXCEPT ![s] = r.images]
         /\ pending' = [pending EXCEPT ![s] =
                IF r.images = <<>> THEN ProcessingError ELSE @]
         /\ Goto(s, "Rasterize",
                 IF r.images = <<>> THEN "cleanup_temp" ELSE "preprocess")
    /\ UNCHANGED <<callArg, callRet, active, inp, idx, texts, todel, response,
                   HAS_MAGIC>>

\* lines 262-265: the image branch, Image.open(temp_filepath); a missing or
\* unreadable file raises.  The image data is taken as read here: a file
\* unlinked later stays readable through the open handle.
OpenImage(s) ==
    /\ pc[s] = "open_image"
    /\ LET path == temp_filepath(s)
           ok == /\ path \in DOMAIN folder
                 /\ folder[path].kind \in {"jpeg", "png"}
       IN
         /\ images' = [images EXCEPT ![s] =
                IF ok THEN <<[out |-> folder[path].pages[1], by |-> folder[path].by]>>
                ELSE @]
         /\ pending' = [pending EXCEPT ![s] = IF ok THEN @ ELSE ProcessingError]
         /\ Goto(s, "OpenImage", IF ok THEN "preprocess" ELSE "cleanup_temp")
    /\ UNCHANGED <<callArg, callRet, active, inp, folder, idx, texts, todel,
                   response, HAS_MAGIC>>

(***************************************************************************)
(* extract_text_from_images, one image per iteration: preprocess_image,    *)
(* then pytesseract.image_to_string.  Nothing in the loop catches an       *)
(* exception: it leaves the function and reaches the except clause of the  *)
(* handler.                                                                *)
(***************************************************************************)
Preprocess(s) ==
    /\ pc[s] = "preprocess"
    /\ LET raises == images[s][idx[s] + 1].out = "prefail" IN
         /\ pending' = [pending EXCEPT ![s] = IF raises THEN ProcessingError ELSE @]
         /\ Goto(s, "Preprocess", IF raises THEN "cleanup_temp" ELSE "ocr")
    /\ UNCHANGED <<callArg, callRet, active, inp, folder, images, idx, texts,
                   todel, response, HAS_MAGIC>>

Ocr(s) ==
    /\ pc[s] = "ocr"
    /\ LET out == images[s][idx[s] + 1].out
           raises == out = "ocrfail"
       IN
         /\ texts' = [texts EXCEPT ![s] = IF raises THEN @ ELSE AppendText(@, Chars(out))]
         /\ idx' = [idx EXCEPT ![s] = IF raises THEN @ ELSE @ + 1]
         /\ pending' = [pending EXCEPT ![s] = IF raises THEN ProcessingError ELSE @]
         /\ Goto(s, "Ocr",
                 IF raises THEN "cleanup_temp"
                 ELSE IF idx[s] + 1 = Len(images[s]) THEN "classify" ELSE "preprocess")
    /\ UNCHANGED <<callArg, callRet, active, inp, folder, images, todel, response,
                   HAS_MAGIC>>

\* the text extract_text_from_images returns once the loop is over
extracted_text(s) == JoinSpace(texts[s])

\* lines 267-277: predict_points on the extracted text, and the 200 response
Classify(s) ==
    /\ pc[s] = "classify"
    /\ pending' = [pending EXCEPT ![s] = PointsResponse(predict_points(extracted_text(s)))]
    /\ Goto(s, "Classify", "cleanup_temp")
    /\ UNCHANGED <<callArg, callRet, active, inp, folder, images, idx, texts,
                   todel, response, HAS_MAGIC>>

(***************************************************************************)
(* The finally clause, lines 285-293                                       *)
(***************************************************************************)
\* if os.path.exists(temp_filepath): os.remove(temp_filepath)
CleanupTemp(s) ==
    /\ pc[s] = "cleanup_temp"
    /\ folder' = IF temp_filepath(s) \in DOMAIN folder
                 THEN RemoveFile(folder, temp_filepath(s)) ELSE folder
    /\ Goto(s, "CleanupTemp", "listdir")
    /\ UNCHANGED <<callArg, callRet, active, inp, images, idx, texts, pending,
                   todel, response, HAS_MAGIC>>

\* os.listdir(UPLOAD_FOLDER), of which the loop takes the names ending in .jpg
ListUploads(s) ==
    /\ pc[s] = "listdir"
    /\ todel' = [todel EXCEPT ![s] = SetToSeq({n \in DOMAIN folder : n[2] = "jpg"})]
    /\ Goto(s, "ListUploads", "cleanup_jpg")
    /\ UNCHANGED <<callArg, callRet, active, inp, folder, images, idx, texts,
                   pending, response, HAS_MAGIC>>

\* os.remove of the next listed jpg.  A file that is gone by now raises
\* FileNotFoundError out of the finally clause: the pending return value is
\* dropped and the outer except answers.
RemoveJpg(s) ==
    /\ pc[s] = "cleanup_jpg"
    /\ todel[s] # <<>>
    /\ LET f == Head(todel[s]) IN
         /\ folder' = IF f \in DOMAIN folder THEN RemoveFile(folder, f) ELSE folder
         /\ todel' = [todel EXCEPT ![s] = Tail(@)]
         /\ response' = [response EXCEPT ![s] =
                IF f \in DOMAIN folder THEN @
                ELSE ErrorResponse(400, "Invalid file format")]
         /\ Goto(s, "RemoveJpg", IF f \in DOMAIN folder THEN "cleanup_jpg" ELSE "done")
    /\ UNCHANGED <<callArg, callRet, active, inp, images, idx, texts, pending,
                   HAS_MAGIC>>

\* the finally clause is over: the return value of the try block is returned
Return(s) ==
    /\ pc[s] = "cleanup_jpg"
    /\ todel[s] = <<>>
    /\ response' = [response EXCEPT ![s] = pending[s]]
    /\ Goto(s, "Return", "done")
    /\ UNCHANGED <<callArg, callRet, active, inp, folder, images, idx, texts,
                   pending, todel, HAS_MAGIC>>

(***************************************************************************)
(* The handler serving requests                                            *)
(***************************************************************************)
InitRequests(subs) ==
    /\ callArg = [fn |-> "upload_certificate"]
    /\ callRet = <<>>
    /\ active = subs
    /\ pc = [s \in subs |-> "received"]
    /\ inp = [s \in subs |-> NoInput]
    /\ folder = <<>>
    /\ images = [s \in subs |-> <<>>]
    /\ idx = [s \in subs |-> 0]
    /\ texts = [s \in subs |-> <<>>]
    /\ pending = [s \in subs |-> NoResponse]
    /\ todel = [s \in subs |-> <<>>]
    /\ response = [s \in subs |-> NoResponse]
    /\ trail = [s \in subs |-> <<>>]
    /\ HAS_MAGIC \in BOOLEAN

Init == InitRequests(Subs)
InitSolo == InitRequests({1})

Next ==
    \/ \E s \in active : CheckRequest(s)
    \/ \E s \in active : Decode(s)
    \/ \E s \in active : DetectMime(s)
    \/ \E s \in active : SaveTemp(s)
    \/ \E s \in active : Rasterize(s)
    \/ \E s \in active : OpenImage(s)
    \/ \E s \in active : Preprocess(s)
    \/ \E s \in active : Ocr(s)
    \/ \E s \in active : Classify(s)
    \/ \E s \in active : CleanupTemp(s)
    \/ \E s \in active : ListUploads(s)
    \/ \E s \in active : RemoveJpg(s)
    \/ \E s \in active : Return(s)

\* two requests served concurrently (Flask serves each request on its own thread)
Spec == Init /\ [][Next]_vars

\* one request served alone, on an empty upload folder
SpecSolo == InitSolo /\ [][Next]_vars

(***************************************************************************)
(* Properties of predict_points (SpecPredict)                              *)
(***************************************************************************)
PredictReturned == callArg.fn = "predict_points" /\ callRet # <<>>

\* "nptel" occurs in t, each letter in either case
NptelAnyCase == <<{"n", "N"}, {"p", "P"}, {"t", "T"}, {"e", "E"}, {"l", "L"}>>
ContainsNptel(t) ==
    \E i \in 1..(Len(t) - 4) : \A k \in 1..5 : t[i + k - 1] \in NptelAnyCase[k]

\* C1: every text that contains "nptel" in any letter case is classified
\* NPTEL with 50 points, whatever keywords of other categories it contains.
C1_NptelHasPriority ==
    (PredictReturned /\ ContainsNptel(callArg.text))
        => callRet[1] = [type |-> "NPTEL", points |-> 50]

\* an upper-case NPTEL together with a Hackathon and a Professional
\* Development keyword, classified NPTEL
C1_Witness ==
    /\ PredictReturned
    /\ Contains(callArg.text, Chars("NPTEL"))
    /\ Contains(callArg.text, Chars("hackathon"))
    /\ Contains(callArg.text, Chars("course"))
    /\ callRet[1].type = "NPTEL"

\* the categories in their priority order
CategoryOrder ==
    <<"NPTEL", "Hackathon/Competition", "Internship", "Professional Development">>

\* the rules with a keyword occurring in the lowercased text
Matching(t) ==
    {i \in 1..Len(certificate_rules) :
        \E k \in 1..Len(certificate_rules[i].keywords) :
            Contains(Lower(t), certificate_rules[i].keywords[k])}

\* C2: predict_points returns the category and points of the first rule, in
\* the order NPTEL, Hackathon/Competition, Internship, Professional
\* Development, that has a keyword in the text, and the default category with
\* 10 points when no rule has one; it always returns a category.
C2_FirstMatchWins ==
    PredictReturned =>
        LET m == Matching(callArg.text) IN
        IF m = {}
        THEN callRet[1] = [type |-> "Other Certificate", points |-> 10]
        ELSE \E i \in m :
                /\ \A j \in m : i <= j
                /\ callRet[1] = [type |-> CategoryOrder[i],
                                 points |-> certificate_rules[i].points]

\* a text with a Hackathon and a Professional Development keyword and no
\* NPTEL keyword, classified Hackathon/Competition
C2_Witness ==
    /\ PredictReturned
    /\ Matching(callArg.text) = {2, 4}
    /\ callRet[1] = [type |-> "Hackathon/Competition", points |-> 40]

(***************************************************************************)
(* Properties of extract_text_from_images (SpecExtract)                    *)
(***************************************************************************)
ExtractReturned == callArg.fn = "extract_text_from_images" /\ callRet # <<>>

\* where the i-th part starts in the join of the parts
RECURSIVE StartOf(_, _)
StartOf(parts, i) ==
    IF i = 1 THEN 1 ELSE StartOf(parts, i - 1) + Len(parts[i - 1]) + 1

\* r is the parts in their order, every one of them, a single space between
\* two neighbours
IsJoinOfAll(r, parts) ==
    LET n == Len(parts) IN
    /\ Len(r) = IF n = 0 THEN 0 ELSE StartOf(parts, n) + Len(parts[n]) - 1
    /\ \A i \in 1..n :
          SubSeq(r, StartOf(parts, i), StartOf(parts, i) + Len(parts[i]) - 1) = parts[i]
    /\ \A i \in 2..n : r[StartOf(parts, i) - 1] = " "

HasDuplicates(q) == \E i, j \in 1..Len(q) : i < j /\ q[i] = q[j]

\* C6: aggregating a sequence of fragments gives the same string as
\* aggregating the sequence with its later exact duplicates removed.
C6_Deduplicates ==
    ExtractReturned =>
        callRet[1] = extract_text_from_images(RemoveLaterDuplicates(callArg.outs))

\* What the code does instead: aggregation keeps every fragment, duplicates
\* included, stripped of surrounding whitespace, in image order and joined
\* with single spaces; it gives the same string as the sequence without its
\* later duplicates only when the sequence has no duplicates.
Code_JoinsAllFragments ==
    ExtractReturned =>
        /\ IsJoinOfAll(callRet[1],
                       [i \in 1..Len(callArg.outs) |-> Strip(callArg.outs[i])])
        /\ (callRet[1] = extract_text_from_images(RemoveLaterDuplicates(callArg.outs)))
             <=> ~HasDuplicates(callArg.outs)

\* ["abc", "abc", "def"] gives "abc abc def"
Code_JoinsAllFragments_Reached ==
    /\ ExtractReturned
    /\ callArg.outs = <<Chars("abc"), Chars("abc"), Chars("def")>>
    /\ callRet[1] = <<"a", "b", "c", " ", "a", "b", "c", " ", "d", "e", "f">>

(***************************************************************************)
(* Properties of upload_certificate                                        *)
(***************************************************************************)
InTrail(s, step) == \E i \in 1..Len(trail[s]) : trail[s][i] = step
Count(s, step) == Cardinality({i \in 1..Len(trail[s]) : trail[s][i] = step})

\* the plausibility gate of the specification: more than 50 characters and
\* at least two of the indicator keywords
Indicators ==
    {<<"c", "e", "r", "t", "i", "f", "i", "c", "a", "t", "e">>,
     <<"c", "o", "m", "p", "l", "e", "t", "i", "o", "n">>,
     <<"a", "w", "a", "r", "d", "e", "d">>,
     <<"v", "e", "r", "i", "f", "i", "e", "d">>,
     <<"r", "e", "c", "o", "g", "n", "i", "z", "e", "d">>,
     <<"p", "a", "r", "t", "i", "c", "i", "p", "a", "t", "i", "o", "n">>}
PassesGate(t) ==
    /\ Len(t) > 50
    /\ Cardinality({k \in Indicators : Contains(Lower(t), k)}) >= 2

Failing(out) == out \in {"prefail", "ocrfail"}
\* the loop of extract_text_from_images went over every image
ExtractedAll(s) == images[s] # <<>> /\ idx[s] = Len(images[s])

\* C3: a submission whose aggregated text fails the plausibility
\* gate ends in a failure with 0 points, and is never classified.
C3_GateStopsPipeline ==
    \A s \in active :
        (pc[s] = "done" /\ ExtractedAll(s) /\ ~PassesGate(extracted_text(s)))
            => /\ response[s].status # 200
               /\ response[s].points = 0
               /\ response[s].type = ""
               /\ ~InTrail(s, "Classify")

\* What the code does instead: a submission processed on its own whose
\* aggregated text fails the gate is classified all the same, and is answered
\* 200 with the category and points predict_points gives its text, at least
\* the 10 points of the default category.
Code_ClassifiesWithoutGate ==
    \A s \in active :
        (pc[s] = "done" /\ ExtractedAll(s) /\ ~PassesGate(extracted_text(s)))
            => /\ InTrail(s, "Classify")
               /\ response[s].status = 200
               /\ response[s].error = ""
               /\ response[s].points >= 10
               /\ [type |-> response[s].type, points |-> response[s].points]
                      = predict_points(extracted_text(s))

\* a text of 11 characters without any indicator, answered with the default
\* category and 10 points
Code_ClassifiesWithoutGate_Reached ==
    \E s \in active :
        /\ pc[s] = "done"
        /\ ExtractedAll(s)
        /\ extracted_text(s) = Strip(Chars("ocr:noise"))
        /\ ~PassesGate(extracted_text(s))
        /\ response[s] = [status |-> 200, error |-> "", points |-> 10,
                          type |-> "Other Certificate"]

\* the OCR outputs of a list of page outcomes
OutputsOf(pages) == [i \in 1..Len(pages) |-> Chars(pages[i])]

\* What the code does instead: of a PDF processed on its own every page is
\* rasterized and passed to text extraction, in page order, also the pages
\* after the third; when no page fails the answer is the classification of
\* the text of all the pages.
Code_EveryPageIsProcessed ==
    \A s \in active :
        (inp[s].doc.kind = "pdf" /\ InTrail(s, "Rasterize"))
            => /\ [i \in 1..Len(images[s]) |-> images[s][i].out] = inp[s].doc.pages
               /\ (/\ pc[s] = "done"
                   /\ inp[s].doc.pages # <<>>
                   /\ \A i \in 1..Len(inp[s].doc.pages) : ~Failing(inp[s].doc.pages[i]))
                      => response[s] = PointsResponse(predict_points(
                            extract_text_from_images(OutputsOf(inp[s].doc.pages))))

\* a PDF of 4 pages whose only keyword is on page 4, classified NPTEL
Code_EveryPageIsProcessed_Reached ==
    \E s \in active :
        /\ pc[s] = "done"
        /\ inp[s].doc = [kind |-> "pdf",
                         pages |-> <<"ocr:noise", "ocr:noise", "ocr:noise", "ocr:nptel">>]
        /\ Len(images[s]) = 4
        /\ response[s].type = "NPTEL"

Usable(out) == ~Failing(out) /\ Len(Strip(Chars(out))) > 10

\* C10: a failure on one page is absorbed; a submission of which
\* some page yields a usable fragment does not fail.
C10_FailureAbsorbed ==
    \A s \in active :
        (/\ pc[s] = "done"
         /\ Count(s, "Preprocess") + Count(s, "Ocr") > 0
         /\ \E i \in 1..Len(images[s]) : Usable(images[s][i].out))
            => response[s].status = 200

\* What the code does instead: for a submission processed on its own, a
\* preprocessing or OCR failure on a page ends text extraction and the
\* submission fails with a processing error and 0 points, whatever the other
\* pages yield; the submission completes only when no page fails.
Code_PageFailureAborts ==
    \A s \in active :
        (pc[s] = "done" /\ images[s] # <<>>)
            => LET failing == \E i \in 1..Len(images[s]) : Failing(images[s][i].out) IN
               /\ failing => response[s] = [status |-> 500, error |-> "Processing error",
                                            points |-> 0, type |-> ""]
               /\ response[s].status = 200 => ~failing
               /\ ~failing => response[s].status = 200

\* a page with a usable text followed by a page on which OCR fails, answered
\* with a processing error
Code_PageFailureAborts_Reached ==
    \E s \in active :
        /\ pc[s] = "done"
        /\ Len(images[s]) >= 2
        /\ Usable(images[s][1].out)
        /\ images[s][2].out = "ocrfail"
        /\ InTrail(s, "Ocr")
        /\ response[s].status = 500

\* C5: a submission whose detected type is not PDF, PNG or JPEG fails as
\* unsupported with 0 points before any image work: it writes no temporary
\* file and takes no rasterization, image or OCR step.
C5_UnsupportedFailsFast ==
    \A s \in active :
        (/\ InTrail(s, "DetectMime")
         /\ mime_type(s) \notin {"application/pdf", "image/png", "image/jpeg"})
            => /\ pc[s] = "done"
               /\ response[s] = [status |-> 400, error |-> "Unsupported file type",
                                 points |-> 0, type |-> ""]
               /\ \A step \in {"SaveTemp", "Rasterize", "OpenImage", "Preprocess", "Ocr"} :
                      ~InTrail(s, step)
               /\ images[s] = <<>>
               /\ \A n \in DOMAIN folder : folder[n].by # s

\* a PDF on which content sniffing raised: the generic binary default,
\* rejected, while another request is being processed
C5_Witness ==
    \E s, t \in active :
        /\ pc[s] = "done"
        /\ inp[s].doc.kind = "pdf"
        /\ InTrail(s, "DetectMime")
        /\ mime_type(s) = "application/octet-stream"
        /\ response[s].error = "Unsupported file type"
        /\ t # s
        /\ InTrail(t, "SaveTemp")

\* the stage a step belongs to: 1 Received, 2 Decoded, 3 Rasterized (for an
\* image: opened), 4 Preprocessed, 5 Extracted, 6 Validated, 7 Classified,
\* 8 the finally clause, 9 returned
StageOf(step) ==
    CASE step = "CheckRequest" -> 1
      [] step \in {"Decode", "DetectMime", "SaveTemp"} -> 2
      [] step \in {"Rasterize", "OpenImage"} -> 3
      [] step = "Preprocess" -> 4
      [] step = "Ocr" -> 5
      [] step = "Classify" -> 7
      [] step \in {"CleanupTemp", "ListUploads", "RemoveJpg"} -> 8
      [] OTHER -> 9

Completed(r) ==
    r.status = 200 /\ r.type # "" /\ r.points > 0 /\ r.error = ""
FailedOutcome(r) ==
    r.status \in {400, 500} /\ r.error # "" /\ r.points = 0 /\ r.type = ""

\* in every state: the steps taken so far go forward through the stages, the
\* only step back being from the OCR of one page to the preprocessing of the
\* next; no step of a stage is taken twice, and no page is preprocessed or
\* read twice; a request that is over has exactly one outcome, and a failure
\* carries 0 points; the loop over the images stays within the list
C7_Forward ==
    \A s \in active :
        /\ \A i \in 1..(Len(trail[s]) - 1) :
              \/ StageOf(trail[s][i]) <= StageOf(trail[s][i + 1])
              \/ trail[s][i] = "Ocr" /\ trail[s][i + 1] = "Preprocess"
        /\ \A step \in {"CheckRequest", "Decode", "DetectMime", "SaveTemp", "Rasterize",
                        "OpenImage", "Classify", "Return"} : Count(s, step) <= 1
        /\ Count(s, "Preprocess") \in {idx[s], idx[s] + 1}
        /\ Count(s, "Ocr") \in {idx[s], idx[s] + 1}
        /\ Count(s, "Preprocess") <= Len(images[s])
        /\ pc[s] = "done" <=> response[s] # NoResponse
        /\ pc[s] = "done" =>
              /\ Completed(response[s]) \/ FailedOutcome(response[s])
              /\ ~(Completed(response[s]) /\ FailedOutcome(response[s]))
              /\ Completed(response[s]) => InTrail(s, "Classify")
        /\ pc[s] \in {"preprocess", "ocr"} => idx[s] < Len(images[s])
        /\ pc[s] = "classify" => ExtractedAll(s)

\* in every step: an outcome, once given, stays
C7_OutcomeStays ==
    \A s \in active : response[s] # NoResponse => response'[s] = response[s]

SoloOutcome(i) ==
    IF i.req = "notjson" THEN ErrorResponse(400, "Invalid request format")
    ELSE IF i.req = "nocert" THEN ErrorResponse(400, "No file uploaded")
    ELSE IF i.b64 = "bad" THEN ErrorResponse(400, "Invalid file format")
    ELSE IF detect_mime_type(i.doc, i.magic = "raise") \notin AllowedMimes
         THEN ErrorResponse(400, "Unsupported file type")
    ELSE IF i.save # "none" THEN ErrorResponse(400, "Invalid file format")
    ELSE IF i.doc.pages = <<>> \/ \E k \in 1..Len(i.doc.pages) : Failing(i.doc.pages[k])
         THEN ErrorResponse(500, "Processing error")
    ELSE PointsResponse(predict_points(extract_text_from_images(OutputsOf(i.doc.pages))))

\* a submission cut to the first 3 pages of its document
FirstThreePagesOf(i) ==
    [i EXCEPT !.doc.pages =
        SubSeq(@, 1, IF Len(@) < 3 THEN Len(@) ELSE 3)]

\* C4: of a PDF only the first 3 pages are rasterized and passed to text
\* extraction, and the later pages never influence the result: the answer is
\* the answer to the PDF cut to its first 3 pages.
C4_AtMostThreePages ==
    \A s \in active :
        (pc[s] = "done" /\ inp[s].doc.kind = "pdf")
            => /\ Len(images[s]) <= 3
               /\ response[s] = SoloOutcome(FirstThreePagesOf(inp[s]))

\* C9: requests processed concurrently do not touch each other's files, so
\* each is answered as it is when processed alone (stated for the runs in
\* which no request meets a fault when saving its file).
C9_OutcomeAsAlone ==
    (\A t \in active : inp[t].save \in {"unread", "none"})
        => \A s \in active : pc[s] = "done" => response[s] = SoloOutcome(inp[s])

=============================================================================
